---- MODULE Spec2Model ----
(***************************************************************************)
(* Drummer voice assistant: the intent classifier (nlu.py), the session    *)
(* dispatcher, the Metronome and the PageTurner (actions.py), the          *)
(* threading.Timer threads the dispatcher arms, the tick thread            *)
(* (Metronome.run), the input stream (input_pipeline.py) and the main loop *)
(* of app.py.                                                              *)
(*                                                                         *)
(* Utterances are sequences of whitespace-separated tokens; a token is a   *)
(* word or a run of decimal digits.  Floating point values (the tick       *)
(* interval, the timer delay) are kept as exact reduced fractions <<n,d>>. *)
(***************************************************************************)
EXTENDS Integers, Sequences, FiniteSets, TLC

VARIABLES
    mlTrained,        \* nlu.VEC / nlu.CLF are set (ml_train() returned True)
    metronome,        \* State.metronome: the Metronome object's fields
    pager,            \* State.pager: [present, current_page] (present = FALSE: None)
    opened,           \* page the viewer was last opened at (0: never opened)
    scheduled_timer,  \* State.scheduled_timer: index into timers, 0 = None
    timers,           \* every threading.Timer created so far, in creation order
    utter,            \* the utterance last captured by the main loop
    intent,           \* the intent of the main thread's last call (NoIntent: no do_action)
    out,              \* what the last step passed to speak(), in order
    event,            \* the step that was just taken
    heard,            \* how many utterances the input stream has yielded
    exited,           \* os._exit(0) was called
    tick,             \* the frame of Metronome.run(): where the tick thread is, what it read
    pending,          \* the Metronome method the main thread is inside of (NoCall: none)
    input             \* the stream input_stream() returned and the frame of its generator

vars == <<mlTrained, metronome, pager, opened, scheduled_timer, timers,
          utter, intent, out, event, heard, exited, tick, pending, input>>

----------------------------------------------------------------------------
(* Bounds of the model *)

\* threading.Timer objects created in one run
MaxTimers == 2
\* highest page the dispatcher is asked to reach (timer fires may go beyond)
MaxPage == 3
\* utterances the input stream yields in one session
MaxUtterances == 2

(* Program constants *)

MIN_BPM == 20
MAX_BPM == 300
DEFAULT_BPM == 100
DEFAULT_DELTA == 5
BEATS_PER_BAR == 4
SECONDS_PER_MINUTE == 60

----------------------------------------------------------------------------
(* Exact arithmetic standing for Python floats *)

Abs(x) == IF x < 0 THEN -x ELSE x

RECURSIVE GCD(_, _)
GCD(a, b) == IF b = 0 THEN a ELSE GCD(b, a % b)

\* n / d as a reduced fraction with a positive denominator (d # 0)
Frac(n, d) ==
    LET g == GCD(Abs(n), Abs(d))
        s == IF d < 0 THEN -1 ELSE 1
    IN  <<(s * n) \div g, (s * d) \div g>>

FDiv(f, k) == Frac(f[1], f[2] * k)
FMul(f, k) == Frac(f[1] * k, f[2])

Max(a, b) == IF a >= b THEN a ELSE b
Min(a, b) == IF a <= b THEN a ELSE b

----------------------------------------------------------------------------
(* Tokens and utterances *)

W(s) == [w |-> s, d |-> <<>>]
N(ds) == [w |-> "", d |-> ds]
NoTok == [w |-> "", d |-> <<>>]

\* str.lower() on a word
Lower(s) ==
    CASE s = "Turn" -> "turn"
      [] s = "Page" -> "page"
      [] s = "Bars" -> "bars"
      [] s = "Triplet" -> "triplet"
      [] s = "SIXTEENTH" -> "sixteenth"
      [] s = "Subdivision" -> "subdivision"
      [] s = "Maestro" -> "maestro"
      [] OTHER -> s

lower(u) == [i \in 1..Len(u) |-> [w |-> Lower(u[i].w), d |-> u[i].d]]

\* int() of a run of decimal digits
RECURSIVE int(_)
int(ds) == IF ds = <<>> THEN 0
           ELSE 10 * int(SubSeq(ds, 1, Len(ds) - 1)) + ds[Len(ds)]

At(u, i) == IF i \in 1..Len(u) THEN u[i] ELSE NoTok
\* token i is one of the words S
Word(u, i, S) == At(u, i).d = <<>> /\ At(u, i).w \in S
\* token i is a run of lo..hi digits standing alone (\b\d{lo,hi}\b)
Num(u, i, lo, hi) == Len(At(u, i).d) >= lo /\ Len(At(u, i).d) <= hi
\* token i is a run of one or more digits (\d+)
Digits(u, i) == Len(At(u, i).d) >= 1

\* leftmost position satisfying P, 0 when there is none (re.search)
Search(u, P(_, _)) ==
    LET S == {i \in 1..Len(u) : P(u, i)}
    IN  IF S = {} THEN 0 ELSE CHOOSE i \in S : \A j \in S : i <= j

\* the subdivision name a word contains ("" when none): SUB_RE
SubIn(w) ==
    CASE w \in {"quarter", "quarters"} -> "quarter"
      [] w \in {"eighth", "eighths"} -> "eighth"
      [] w \in {"triplet", "triplets"} -> "triplet"
      [] w \in {"sixteenth", "sixteenths"} -> "sixteenth"
      [] w = "Triplet" -> "Triplet"
      [] w = "SIXTEENTH" -> "SIXTEENTH"
      [] OTHER -> ""

\* SUB_RE is compiled with re.I
SUB_RE(u, i) == At(u, i).d = <<>> /\ SubIn(At(u, i).w) # ""
\* NUM_RE: \b(\d{1,3})\b
NUM_RE(u, i) == Num(u, i, 1, 3)
\* PAGE_RE: page\s+(\d+); the group is token i + 1
PAGE_RE(u, i) == Word(u, i, {"page"}) /\ Digits(u, i + 1)

----------------------------------------------------------------------------
(* Intents: a dict with a name and optional slots.  An integer slot is     *)
(* <<>> when the key is missing or None and <<v>> otherwise; sub is ""     *)
(* when missing or None.                                                   *)

Intent(name) ==
    [name |-> name, bpm |-> <<>>, delta |-> <<>>, sub |-> "",
     page |-> <<>>, bars |-> <<>>]

NoIntent == Intent("")

----------------------------------------------------------------------------
(* nlu.py: the rule-based classifier *)

R_start(u, i) == Word(u, i, {"start", "begin"}) /\ Word(u, i + 1, {"metronome"})
R_stop(u, i) == Word(u, i, {"stop", "end"}) /\ Word(u, i + 1, {"metronome"})
R_tap(u, i) == Word(u, i, {"tap"}) /\ Word(u, i + 1, {"tempo"})
R_what(u, i) == Word(u, i, {"what's", "whats"}) /\ Word(u, i + 1, {"tempo", "bpm"})
R_set(u, i) ==
    \/ /\ Word(u, i, {"set"}) /\ Word(u, i + 1, {"tempo", "bpm"})
       /\ Word(u, i + 2, {"to", "at"}) /\ Num(u, i + 3, 2, 3)
    \/ Word(u, i, {"tempo", "bpm"}) /\ Num(u, i + 1, 2, 3)
\* (increase|up) (tempo|bpm) [by] N; the group is token DeltaAt(u, i)
R_adjust(u, i, verbs) ==
    /\ Word(u, i, verbs) /\ Word(u, i + 1, {"tempo", "bpm"})
    /\ \/ Word(u, i + 2, {"by"}) /\ Num(u, i + 3, 1, 3)
       \/ Num(u, i + 2, 1, 3)
R_inc(u, i) == R_adjust(u, i, {"increase", "up"})
R_dec(u, i) == R_adjust(u, i, {"decrease", "down"})
DeltaAt(u, i) == IF Word(u, i + 2, {"by"}) THEN i + 3 ELSE i + 2
R_subdiv(u, i) == Word(u, i, {"subdivision", "subdivide", "subdiv"})
R_next(u, i) == Word(u, i, {"next", "turn"}) /\ Word(u, i + 1, {"page"})
R_prev(u, i) == Word(u, i, {"previous", "prev"}) /\ Word(u, i + 1, {"page"})
R_goto(u, i) ==
    Word(u, i, {"go"}) /\ Word(u, i + 1, {"to"}) /\ Word(u, i + 2, {"page"})
\* turn\s+page\s+in\s+(\d+)\s+bars? has no \b in front: any word ending in "turn"
R_sched(u, i) ==
    /\ Word(u, i, {"turn", "return"}) /\ Word(u, i + 1, {"page"})
    /\ Word(u, i + 2, {"in"}) /\ Digits(u, i + 3)
    /\ Word(u, i + 4, {"bar", "bars"})
R_help(u, i) == Word(u, i, {"help"})
R_quit(u, i) == Word(u, i, {"quit", "exit"})

nlu_rules(utterance) ==
    LET u == lower(utterance) IN
    IF Search(u, R_start) # 0 THEN Intent("start_met")
    ELSE IF Search(u, R_stop) # 0 THEN Intent("stop_met")
    ELSE IF Search(u, R_tap) # 0 THEN Intent("tap_tempo")
    ELSE IF Search(u, R_what) # 0 THEN Intent("what_tempo")
    ELSE IF Search(u, R_set) # 0 /\ Search(u, NUM_RE) # 0
        THEN [Intent("set_tempo") EXCEPT !.bpm = <<int(u[Search(u, NUM_RE)].d)>>]
    ELSE IF Search(u, R_inc) # 0
        THEN [Intent("inc_tempo") EXCEPT
                 !.delta = <<int(u[DeltaAt(u, Search(u, R_inc))].d)>>]
    ELSE IF Search(u, R_dec) # 0
        THEN [Intent("dec_tempo") EXCEPT
                 !.delta = <<int(u[DeltaAt(u, Search(u, R_dec))].d)>>]
    ELSE IF Search(u, SUB_RE) # 0 /\ Search(u, R_subdiv) # 0
        THEN [Intent("set_subdivision") EXCEPT
                 !.sub = SubIn(u[Search(u, SUB_RE)].w)]
    ELSE IF Search(u, R_next) # 0 THEN Intent("next_page")
    ELSE IF Search(u, R_prev) # 0 THEN Intent("prev_page")
    ELSE IF Search(u, PAGE_RE) # 0 /\ Search(u, R_goto) # 0
        THEN [Intent("goto_page") EXCEPT
                 !.page = <<int(u[Search(u, PAGE_RE) + 1].d)>>]
    ELSE IF Search(u, R_sched) # 0
        THEN [Intent("schedule_page_turn") EXCEPT
                 !.bars = <<int(u[Search(u, R_sched) + 3].d)>>]
    ELSE IF Search(u, R_help) # 0 THEN Intent("help")
    ELSE IF Search(u, R_quit) # 0 THEN Intent("quit")
    ELSE Intent("unknown")

(* nlu.py: the statistical path.  The trained classifier is a library      *)
(* object: ml_predict is None ("" here) or any label of TRAIN_DATA.        *)

Labels ==
    {"start_met", "stop_met", "set_tempo", "inc_tempo", "dec_tempo",
     "what_tempo", "tap_tempo", "next_page", "prev_page", "goto_page",
     "set_subdivision", "schedule_page_turn", "help", "quit"}

ml_predict(trained) == IF trained THEN Labels \cup {""} ELSE {""}

\* (\d+)\s+bars?, searched in utterance.lower()
BARS_RE(u, i) == Digits(u, i) /\ Word(u, i + 1, {"bar", "bars"})

nlu(utterance, pred) ==
    LET m == Search(utterance, NUM_RE)
        num == IF m # 0 THEN <<int(utterance[m].d)>> ELSE <<>>
        sm == Search(utterance, SUB_RE)
        bm == Search(lower(utterance), BARS_RE)
    IN
    IF pred # "" THEN
        IF pred = "set_tempo" THEN [Intent(pred) EXCEPT !.bpm = num]
        ELSE IF pred \in {"inc_tempo", "dec_tempo"}
            THEN [Intent(pred) EXCEPT
                     !.delta = IF m # 0 THEN num ELSE <<DEFAULT_DELTA>>]
        ELSE IF pred = "goto_page" THEN [Intent(pred) EXCEPT !.page = num]
        ELSE IF pred = "set_subdivision"
            THEN [Intent(pred) EXCEPT
                     !.sub = IF sm # 0 THEN Lower(SubIn(utterance[sm].w)) ELSE ""]
        ELSE IF pred = "schedule_page_turn"
            THEN [Intent(pred) EXCEPT
                     !.bars = IF bm # 0 THEN <<int(utterance[bm].d)>> ELSE <<>>]
        ELSE Intent(pred)
    ELSE nlu_rules(utterance)

----------------------------------------------------------------------------
(* actions.py: speak() and the session the dispatcher works on.            *)
(* A session S is [metronome, pager, opened, scheduled_timer, timers, out, *)
(* exited]; every method below maps a session to the session it leaves.    *)

Say(text) == [text |-> text, n |-> <<>>, w |-> ""]
SayN(text, n) == [text |-> text, n |-> <<n>>, w |-> ""]
SayW(text, w) == [text |-> text, n |-> <<>>, w |-> w]

speak(S, r) == [S EXCEPT !.out = Append(@, r)]

(* Metronome *)

\* the clamp without its lower bound
clamp_bpm_nofloor(bpm) == Min(MAX_BPM, bpm)

clamp_bpm(bpm) == Max(MIN_BPM, Min(MAX_BPM, bpm))

\* Metronome.__init__
Metronome(bpm) ==
    [bpm |-> clamp_bpm(bpm),
     interval |-> FDiv(<<SECONDS_PER_MINUTE, 1>>, clamp_bpm(bpm)),
     running |-> FALSE,
     stop_all |-> FALSE,
     alive |-> FALSE,
     threads |-> 0,
     beat |-> 0,
     subdivision |-> 1]

\* set_bpm recomputing the interval as __init__ does, without the subdivision
set_bpm_stale(S, bpm) ==
    LET b == clamp_bpm(bpm)
        i == FDiv(<<SECONDS_PER_MINUTE, 1>>, b)
    IN  speak([S EXCEPT !.metronome.bpm = b, !.metronome.interval = i],
              SayN("Tempo set to {} BPM.", b))

set_bpm(S, bpm) ==
    LET b == clamp_bpm(bpm)
        i == FDiv(FDiv(<<SECONDS_PER_MINUTE, 1>>, b), Max(1, S.metronome.subdivision))
    IN  speak([S EXCEPT !.metronome.bpm = b, !.metronome.interval = i],
              SayN("Tempo set to {} BPM.", b))

increase(S, delta) == set_bpm(S, S.metronome.bpm + delta)
decrease(S, delta) == set_bpm(S, S.metronome.bpm - delta)

mapping ==
    [sub \in {"quarter", "eighth", "triplet", "sixteenth"} |->
        CASE sub = "quarter" -> 1
          [] sub = "eighth" -> 2
          [] sub = "triplet" -> 3
          [] sub = "sixteenth" -> 4]

set_subdivision(S, sub) ==
    IF sub \in DOMAIN mapping THEN
        LET i == FDiv(FDiv(<<SECONDS_PER_MINUTE, 1>>, S.metronome.bpm), mapping[sub])
        IN  speak([S EXCEPT !.metronome.subdivision = mapping[sub],
                            !.metronome.interval = i],
                  SayW("Subdivision set to {}.", sub))
    ELSE S

\* Thread.start(): one more thread runs run()
start(S) == [S EXCEPT !.metronome.alive = TRUE, !.metronome.threads = @ + 1]

\* start_click without its test of is_alive()
start_click_restart(S) ==
    speak([start(S) EXCEPT !.metronome.running = TRUE],
          Say("Metronome started."))

start_click(S) ==
    LET S1 == IF ~S.metronome.alive THEN start(S) ELSE S
    IN  speak([S1 EXCEPT !.metronome.running = TRUE],
              Say("Metronome started."))

\* stop_click that also cancels the session's scheduled timer
stop_click_cancels(S) ==
    LET S1 == IF S.scheduled_timer # 0
              THEN [S EXCEPT !.timers[S.scheduled_timer].finished = TRUE,
                             !.scheduled_timer = 0]
              ELSE S
    IN  speak([S1 EXCEPT !.metronome.running = FALSE], Say("Metronome stopped."))

stop_click(S) ==
    speak([S EXCEPT !.metronome.running = FALSE], Say("Metronome stopped."))

(* PageTurner *)

open_page(S) == [S EXCEPT !.opened = S.pager.current_page]

announce(S) == open_page(speak(S, SayN("Page {}.", S.pager.current_page)))

next_page(S) ==
    announce([S EXCEPT !.pager.current_page = @ + 1])

\* prev_page without its test of current_page
prev_page_unguarded(S) ==
    announce([S EXCEPT !.pager.current_page = @ - 1])

prev_page(S) ==
    announce(IF S.pager.current_page > 1
             THEN [S EXCEPT !.pager.current_page = @ - 1]
             ELSE S)

goto_page(S, n) ==
    announce([S EXCEPT !.pager.current_page = Max(1, n)])

(* threading.Timer *)

\* Timer(seconds, function) followed by start(): the thread sleeps in
\* finished.wait(interval)
Timer(seconds) ==
    [st |-> "waiting", finished |-> FALSE, interval |-> seconds, local |-> 0]

\* Timer.cancel(): finished.set()
cancel(S, t) == [S EXCEPT !.timers[t].finished = TRUE]

(* Dispatcher *)

\* Python truth value of an integer slot: missing, None and 0 are false
Truthy(slot) == slot # <<>> /\ slot[1] # 0

\* a branch of do_action that says nothing when its slot is missing
prompt_silent(S, text) == S

\* the else branch of a slot test: ask for the slot, change nothing
prompt(S, text) == speak(S, Say(text))

\* arming without cancelling the timer that is replaced
schedule_page_turn_nocancel(S, bars) ==
    LET seconds == FMul(FDiv(<<SECONDS_PER_MINUTE, 1>>, S.metronome.bpm),
                        bars * BEATS_PER_BAR)
        S2 == [S EXCEPT !.timers = Append(@, Timer(seconds)),
                        !.scheduled_timer = Len(S.timers) + 1]
    IN  speak(S2, SayN("Okay, turning the page in {} bars.", bars))

schedule_page_turn(S, bars) ==
    LET seconds == FMul(FDiv(<<SECONDS_PER_MINUTE, 1>>, S.metronome.bpm),
                        bars * BEATS_PER_BAR)
        S1 == IF S.scheduled_timer # 0 THEN cancel(S, S.scheduled_timer) ELSE S
        S2 == [S1 EXCEPT !.timers = Append(@, Timer(seconds)),
                         !.scheduled_timer = Len(S1.timers) + 1]
    IN  speak(S2, SayN("Okay, turning the page in {} bars.", bars))

do_action(i, S) ==
    LET name == i.name
        delta == IF i.delta = <<>> THEN DEFAULT_DELTA ELSE i.delta[1]
        sub == Lower(i.sub)
    IN
    IF name = "unknown"
        THEN speak(S, Say("Sorry, I didn't understand. Say 'help' for options."))
    ELSE IF name = "start_met" THEN start_click(S)
    ELSE IF name = "stop_met" THEN stop_click(S)
    ELSE IF name = "set_tempo" THEN
        IF Truthy(i.bpm) THEN set_bpm(S, i.bpm[1])
        ELSE prompt(S, "Say a BPM number, like 'set tempo to 120'.")
    ELSE IF name = "inc_tempo" THEN increase(S, delta)
    ELSE IF name = "dec_tempo" THEN decrease(S, delta)
    ELSE IF name = "what_tempo"
        THEN speak(S, SayN("Tempo is {} BPM.", S.metronome.bpm))
    ELSE IF name = "set_subdivision" THEN
        IF sub # "" THEN set_subdivision(S, sub)
        ELSE prompt(S, "Say a subdivision: quarter, eighth, triplet, sixteenth.")
    ELSE IF name = "next_page" THEN
        IF S.pager.present THEN next_page(S)
        ELSE speak(S, Say("No PDF loaded."))
    ELSE IF name = "prev_page" THEN
        IF S.pager.present THEN prev_page(S)
        ELSE speak(S, Say("No PDF loaded."))
    ELSE IF name = "goto_page" THEN
        IF S.pager.present /\ Truthy(i.page) THEN goto_page(S, i.page[1])
        ELSE prompt(S, "Say 'go to page N'.")
    ELSE IF name = "schedule_page_turn" THEN
        IF ~(S.pager.present /\ Truthy(i.bars))
            THEN prompt(S, "Say 'turn page in N bars'.")
        ELSE schedule_page_turn(S, i.bars[1])
    ELSE IF name = "help"
        THEN speak(S, Say("Try: start/stop metronome, set tempo to 120, next page, go to page 5, turn page in 4 bars, quit."))
    ELSE IF name = "quit"
        THEN [speak(S, Say("Goodbye.")) EXCEPT !.exited = TRUE]
    ELSE S

----------------------------------------------------------------------------
(* Inputs *)

\* the decimal digits of n >= 0, as str(n) writes them
RECURSIVE Dec(_)
Dec(n) == IF n < 10 THEN <<n>> ELSE Append(Dec(n \div 10), n % 10)

\* the page the user asks for
PageArg == 2

\* what the input stream yields
Utterances ==
    {<<W("start"), W("metronome")>>,
     <<W("stop"), W("metronome")>>,
     <<W("tap"), W("tempo")>>,
     <<W("what's"), W("tempo")>>,
     <<W("set"), W("tempo"), W("to"), N(<<1, 2, 0>>)>>,
     <<W("set"), W("tempo"), W("to"), N(<<0, 0>>)>>,
     <<W("tempo"), N(<<9, 9, 9>>)>>,
     <<W("set"), W("tempo"), W("to"), N(<<5>>)>>,
     <<W("increase"), W("tempo"), W("by"), N(<<9, 9, 9>>)>>,
     <<W("decrease"), W("tempo"), W("by"), N(<<9, 9, 9>>)>>,
     <<W("set"), W("subdivision"), W("to"), W("eighth")>>,
     <<W("Subdivision"), W("Triplet")>>,
     <<W("next"), W("page")>>,
     <<W("turn"), W("page")>>,
     <<W("previous"), W("page")>>,
     <<W("go"), W("to"), W("page"), N(Dec(PageArg))>>,
     <<W("go"), W("to"), W("page"), N(<<0>>)>>,
     <<W("turn"), W("page"), W("in"), N(<<4>>), W("bars")>>,
     <<W("Turn"), W("Page"), W("in"), N(<<4>>), W("Bars")>>,
     <<W("return"), W("page"), W("in"), N(<<4>>), W("bars")>>,
     <<W("help")>>,
     <<W("quit")>>,
     <<W("blah"), W("blah")>>}

\* --bpm values given to main()
BpmArgs == {DEFAULT_BPM, 120}

\* nlu over the utterances of the model, computed once
Classified ==
    [u \in Utterances |->
        [pred \in Labels \cup {""} |-> nlu(u, pred)]]

----------------------------------------------------------------------------
(* The state machine *)

\* a step: what was called, its integer or string argument, the timer whose
\* thread moved, and the page the step found
Event(op) ==
    [op |-> op, n |-> <<>>, s |-> "", t |-> 0, page |-> pager.current_page]

\* the frame of Metronome.run() before its first step: pc is the statement
\* it is at, sub and interval are what the last tick read
Frame == [pc |-> "while", sub |-> 0, interval |-> <<0, 1>>]

\* the main thread is inside no Metronome method
NoCall == [op |-> "", n |-> <<>>, s |-> ""]

\* no stream: input_stream() was not called
NoInput ==
    [prefer |-> "", has_vosk |-> FALSE, model_ok |-> FALSE, has_sr |-> FALSE,
     mic_ok |-> FALSE, stream |-> "", st |-> "", heard_wake |-> FALSE,
     text |-> <<>>, yielded |-> <<>>, wake |-> FALSE]

\* the session as the step finds it; out collects what this step says
Cur ==
    [metronome |-> metronome, pager |-> pager, opened |-> opened,
     scheduled_timer |-> scheduled_timer, timers |-> timers,
     out |-> <<>>, exited |-> exited]

Commit(S) ==
    /\ metronome' = S.metronome
    /\ pager' = S.pager
    /\ opened' = S.opened
    /\ scheduled_timer' = S.scheduled_timer
    /\ timers' = S.timers
    /\ out' = S.out
    /\ exited' = S.exited
    /\ UNCHANGED <<tick, input>>

\* the bounds: no more than MaxTimers timers, and the main thread turns no
\* further than MaxPage
InBounds(S) ==
    /\ Len(S.timers) <= MaxTimers
    /\ S.pager.current_page <= Max(MaxPage, pager.current_page)

\* the session before the first call
Start(m, present) ==
    /\ metronome = m
    /\ pager = [present |-> present, current_page |-> 1]
    /\ scheduled_timer = 0
    /\ timers = <<>>
    /\ utter = <<>>
    /\ intent = NoIntent
    /\ heard = 0
    /\ exited = FALSE
    /\ tick = Frame
    /\ pending = NoCall
    /\ input = NoInput

\* app.py main(): the state built before the loop starts; ml_train() succeeds
\* when scikit-learn is installed
Init ==
    /\ mlTrained \in BOOLEAN
    /\ \E b \in BpmArgs, present \in BOOLEAN :
          /\ Start(start([metronome |-> Metronome(b)]).metronome, present)
          /\ opened = IF present THEN 1 ELSE 0
          /\ out = IF present THEN <<Say("Opening page 1.")>>
                   ELSE <<Say("No PDF found in ./music/. Continue without page turning.")>>
    /\ event = Event("main")

\* do_action(i, state), called by the main thread
Dispatch(i) ==
    /\ ~exited
    /\ pending = NoCall
    /\ UNCHANGED pending
    /\ InBounds(do_action(i, Cur))
    /\ Commit(do_action(i, Cur))
    /\ intent' = i
    /\ event' = Event("do_action")

\* app.py main(): one turn of the loop over the input stream
Utter(u) ==
    /\ heard < MaxUtterances
    /\ \E pred \in ml_predict(mlTrained) : Dispatch(Classified[u][pred])
    /\ utter' = u
    /\ heard' = heard + 1
    /\ UNCHANGED mlTrained

(* The thread of a threading.Timer: run() is                               *)
(*     self.finished.wait(self.interval)                                    *)
(*     if not self.finished.is_set(): self.function()                       *)
(*     self.finished.set()                                                  *)
(* and the function is the pager's next_page.                               *)

TimerStep(t, from, S) ==
    /\ ~exited
    /\ t \in 1..Len(timers)
    /\ timers[t].st = from
    /\ Commit(S)
    /\ event' = [Event("Timer.run") EXCEPT !.t = t]
    /\ UNCHANGED <<mlTrained, utter, intent, heard, pending>>

\* finished.wait(interval) returns: the delay has passed, or cancel() set the flag
TimerWake(t) ==
    TimerStep(t, "waiting", [Cur EXCEPT !.timers[t].st = "woken"])

\* if not self.finished.is_set()
TimerCheck(t) ==
    TimerStep(t, "woken",
        IF timers[t].finished
        THEN [Cur EXCEPT !.timers[t].st = "done"]
        ELSE [Cur EXCEPT !.timers[t].st = "firing"])

\* next_page: self.current_page += 1 reads the attribute ...
TimerLoad(t) ==
    TimerStep(t, "firing",
        [Cur EXCEPT !.timers[t].st = "loaded",
                    !.timers[t].local = pager.current_page])

\* ... and stores the sum
TimerStore(t) ==
    TimerStep(t, "loaded",
        [Cur EXCEPT !.timers[t].st = "stored",
                    !.pager.current_page = timers[t].local + 1])

\* next_page: speak and _open_page, then run() sets finished
TimerAnnounce(t) ==
    TimerStep(t, "stored",
        [announce(Cur) EXCEPT !.timers[t].st = "done",
                              !.timers[t].finished = TRUE,
                              !.timers[t].local = 0])

TimerThread ==
    \E t \in 1..MaxTimers :
        \/ TimerWake(t)
        \/ TimerCheck(t)
        \/ TimerLoad(t)
        \/ TimerStore(t)
        \/ TimerAnnounce(t)

Next ==
    \/ \E u \in Utterances : Utter(u)
    \/ TimerThread

Spec == Init /\ [][Next]_vars

----------------------------------------------------------------------------
(* The classes and the dispatcher called directly, as a test calls them.   *)

\* integers handed to the Metronome
TempoInts == {-500, -5, 0, 5, 500}

\* names handed to Metronome.set_subdivision
SubNames == {"quarter", "eighth", "triplet", "sixteenth", "half", "Triplet"}

\* intents about the tempo
TempoIntents ==
    {Intent("start_met"), Intent("stop_met"), Intent("what_tempo"),
     Intent("tap_tempo")}
    \cup {[Intent("set_tempo") EXCEPT !.bpm = b] :
             b \in {<<>>, <<0>>, <<-5>>, <<25>>, <<500>>}}
    \cup {[Intent(n) EXCEPT !.delta = d] :
             n \in {"inc_tempo", "dec_tempo"}, d \in {<<>>, <<500>>}}
    \cup {[Intent("set_subdivision") EXCEPT !.sub = s] :
             s \in {"", "eighth", "Triplet", "half"}}

\* intents about the pages
PageIntents ==
    {Intent("next_page"), Intent("prev_page")}
    \cup {[Intent("goto_page") EXCEPT !.page = p] :
             p \in {<<>>, <<0>>, <<-2>>, <<PageArg>>}}
    \cup {[Intent("schedule_page_turn") EXCEPT !.bars = b] :
             b \in {<<>>, <<0>>, <<4>>}}

\* integers handed to PageTurner.goto_page
PageInts == {-2, 0, 1, PageArg}

\* a method of the session's objects called with argument n or s
Call(op, n, s, S) ==
    /\ ~exited
    /\ pending = NoCall
    /\ UNCHANGED pending
    /\ InBounds(S)
    /\ Commit(S)
    /\ event' = [Event(op) EXCEPT !.n = n, !.s = s]
    /\ intent' = NoIntent
    /\ UNCHANGED <<mlTrained, utter, heard>>

CallSetBpm(n) == Call("set_bpm", <<n>>, "", set_bpm(Cur, n))
CallIncrease(d) == Call("increase", <<d>>, "", increase(Cur, d))
CallDecrease(d) == Call("decrease", <<d>>, "", decrease(Cur, d))
CallSetSubdivision(s) == Call("set_subdivision", <<>>, s, set_subdivision(Cur, s))
CallStartClick == Call("start_click", <<>>, "", start_click(Cur))
CallStopClick == Call("stop_click", <<>>, "", stop_click(Cur))

CallNextPage == pager.present /\ Call("next_page", <<>>, "", next_page(Cur))
CallPrevPage == pager.present /\ Call("prev_page", <<>>, "", prev_page(Cur))
CallGotoPage(n) == pager.present /\ Call("goto_page", <<n>>, "", goto_page(Cur, n))

CallDoAction(i) == Dispatch(i) /\ UNCHANGED <<mlTrained, utter, heard>>

\* a Metronome constructed with any integer, not started, and no pager
InitTempo ==
    /\ mlTrained = FALSE
    /\ \E b \in TempoInts \cup {DEFAULT_BPM} :
          /\ Start(Metronome(b), FALSE)
          /\ event = [Event("Metronome") EXCEPT !.n = <<b>>]
    /\ opened = 0
    /\ out = <<>>

NextTempo ==
    \/ \E n \in TempoInts : CallSetBpm(n)
    \/ \E d \in TempoInts : CallIncrease(d)
    \/ \E d \in TempoInts : CallDecrease(d)
    \/ \E s \in SubNames : CallSetSubdivision(s)
    \/ CallStartClick
    \/ CallStopClick
    \/ \E i \in TempoIntents : CallDoAction(i)

SpecTempo == InitTempo /\ [][NextTempo]_vars

\* a session with or without a PageTurner, its viewer not opened yet
InitPages ==
    /\ mlTrained = FALSE
    /\ \E present \in BOOLEAN : Start(Metronome(DEFAULT_BPM), present)
    /\ event = Event("State")
    /\ opened = 0
    /\ out = <<>>

NextPages ==
    \/ CallNextPage
    \/ CallPrevPage
    \/ \E n \in PageInts : CallGotoPage(n)
    \/ \E i \in PageIntents : CallDoAction(i)
    \/ TimerThread

SpecPages == InitPages /\ [][NextPages]_vars

(* The tick thread and the main thread's calls of the Metronome.  run() is *)
(*     while not self._stop_all.is_set():                                   *)
(*         if self._running.is_set():                                       *)
(*             self._beat = (self._beat % (4*self._subdivision)) + 1        *)
(*             print(f"[Tick] {self._beat}")                                *)
(*             time.sleep(self._interval)                                   *)
(*         else:                                                            *)
(*             time.sleep(0.02)                                             *)
(* and no lock is held by either thread: every read and every store of an  *)
(* attribute is a step of its own.                                          *)

\* a step of run(): pc "from", leaving the metronome m and the frame f
TickStep(from, m, f, what, n) ==
    /\ ~exited
    /\ metronome.alive
    /\ tick.pc = from
    /\ metronome' = m
    /\ tick' = f
    /\ event' = [Event("Metronome.run") EXCEPT !.s = what, !.n = n]
    /\ out' = <<>>
    /\ UNCHANGED <<mlTrained, pager, opened, scheduled_timer, timers, utter,
                   intent, heard, exited, pending, input>>

\* while not self._stop_all.is_set()
RunWhile ==
    TickStep("while", metronome,
        [tick EXCEPT !.pc = IF metronome.stop_all THEN "done" ELSE "if"],
        "while", <<>>)

\* if self._running.is_set(); else time.sleep(0.02), back to the while
RunIf ==
    TickStep("if", metronome,
        [tick EXCEPT !.pc = IF metronome.running THEN "beat" ELSE "while"],
        "if", <<>>)

\* self._beat = (self._beat % (4*self._subdivision)) + 1 and the print
RunBeat ==
    LET b == (metronome.beat % (4 * metronome.subdivision)) + 1
    IN  TickStep("beat", [metronome EXCEPT !.beat = b],
            [tick EXCEPT !.pc = "sleep", !.sub = metronome.subdivision],
            "tick", <<b>>)

\* time.sleep(self._interval)
RunSleep ==
    TickStep("sleep", metronome,
        [tick EXCEPT !.pc = "while", !.interval = metronome.interval],
        "sleep", <<>>)

TickThread ==
    \/ RunWhile
    \/ RunIf
    \/ RunBeat
    \/ RunSleep

\* the main thread enters a setter of the Metronome and executes its first
\* store, leaving the metronome m
Enter(op, n, s, m) ==
    /\ ~exited
    /\ pending = NoCall
    /\ metronome' = m
    /\ pending' = [op |-> op, n |-> n, s |-> s]
    /\ event' = [Event("store") EXCEPT !.s = op]
    /\ out' = <<>>
    /\ intent' = NoIntent
    /\ UNCHANGED <<mlTrained, pager, opened, scheduled_timer, timers, utter,
                   heard, exited, tick, input>>

\* set_bpm: self._bpm = max(20, min(300, int(bpm)))
SetBpmStore(n) ==
    Enter("set_bpm", <<n>>, "", [metronome EXCEPT !.bpm = clamp_bpm(n)])

\* set_subdivision: self._subdivision = mapping[sub]
SetSubdivisionStore(s) ==
    /\ s \in DOMAIN mapping
    /\ Enter("set_subdivision", <<>>, s,
             [metronome EXCEPT !.subdivision = mapping[s]])

\* the rest of the setter: the store of self._interval and speak()
Return ==
    /\ ~exited
    /\ pending # NoCall
    /\ Commit(IF pending.op = "set_bpm"
              THEN set_bpm(Cur, pending.n[1])
              ELSE set_subdivision(Cur, pending.s))
    /\ pending' = NoCall
    /\ event' = [Event(pending.op) EXCEPT !.n = pending.n, !.s = pending.s]
    /\ intent' = NoIntent
    /\ UNCHANGED <<mlTrained, utter, heard>>

\* tempos and subdivisions set while the tick thread runs
TickBpms == {120}
TickSubs == {"eighth", "triplet"}

\* a Metronome at the default tempo, its thread started by main() or not yet
InitTick ==
    /\ mlTrained = FALSE
    /\ \E started \in BOOLEAN :
          Start(IF started
                THEN start([metronome |-> Metronome(DEFAULT_BPM)]).metronome
                ELSE Metronome(DEFAULT_BPM), FALSE)
    /\ event = [Event("Metronome") EXCEPT !.n = <<DEFAULT_BPM>>]
    /\ opened = 0
    /\ out = <<>>

NextTick ==
    \/ \E i \in {Intent("start_met"), Intent("stop_met")} : CallDoAction(i)
    \/ \E n \in TickBpms : SetBpmStore(n)
    \/ \E s \in TickSubs : SetSubdivisionStore(s)
    \/ Return
    \/ TickThread

SpecTick == InitTick /\ [][NextTick]_vars

(* input_pipeline.py.  voice_loop_vosk, voice_loop_sr and text_input_loop  *)
(* contain a yield, so each is a generator function: a call runs none of   *)
(* its body and returns a generator object; the body runs in next(), and a *)
(* return in it ends the stream.                                           *)

\* wake_word handed to input_stream by main()
WAKE_WORD == "maestro"

\* what a call of generator function fn returns; None is <<>>
Generator(fn) == <<fn>>

\* Python truth value of what a call returned: None is false, an object true
IsTrue(gen) == gen # <<>>

input_stream(prefer) ==
    IF prefer = "vosk" THEN
        IF IsTrue(Generator("voice_loop_vosk")) THEN Generator("voice_loop_vosk")
        ELSE IF IsTrue(Generator("voice_loop_sr")) THEN Generator("voice_loop_sr")
        ELSE Generator("text_input_loop")
    ELSE IF prefer = "sr" THEN
        IF IsTrue(Generator("voice_loop_sr")) THEN Generator("voice_loop_sr")
        ELSE IF IsTrue(Generator("voice_loop_vosk")) THEN Generator("voice_loop_vosk")
        ELSE Generator("text_input_loop")
    ELSE Generator("text_input_loop")

\* the body of the generator up to its loop: the tests that return None
begin(in) ==
    [in EXCEPT !.st =
        CASE in.stream = "voice_loop_vosk" ->
                 IF ~in.has_vosk THEN "ended"
                 ELSE IF ~in.model_ok THEN "ended"
                 ELSE "running"
          [] in.stream = "voice_loop_sr" ->
                 IF ~in.has_sr THEN "ended"
                 ELSE IF ~in.mic_ok THEN "ended"
                 ELSE "running"
          [] OTHER -> "running"]

\* a turn of the loop that yields nothing (continue)
skip(in, text) == [in EXCEPT !.text = text, !.yielded = <<>>]

\* the wake logic with heard_wake left set after the yield
wake_step_noreset(in, text) ==
    IF ~in.heard_wake THEN
        IF W(WAKE_WORD) \in {lower(text)[k] : k \in 1..Len(text)}
        THEN [skip(in, text) EXCEPT !.heard_wake = TRUE]
        ELSE skip(in, text)
    ELSE [in EXCEPT !.text = text, !.yielded = <<text>>]

\* both voice loops, on a recognised text: if not heard_wake ... continue;
\* yield text; heard_wake = False
wake_step(in, text) ==
    IF ~in.heard_wake THEN
        IF W(WAKE_WORD) \in {lower(text)[k] : k \in 1..Len(text)}
        THEN [skip(in, text) EXCEPT !.heard_wake = TRUE]
        ELSE skip(in, text)
    ELSE [in EXCEPT !.text = text, !.yielded = <<text>>, !.heard_wake = FALSE]

\* what the recogniser returns, stripped; <<>> is the empty string
Texts ==
    {<<>>,
     <<W("maestro")>>,
     <<W("Maestro")>>,
     <<W("hey"), W("maestro")>>,
     <<W("maestros")>>,
     <<W("next"), W("page")>>,
     <<W("maestro"), W("next"), W("page")>>}

\* a wake text was heard since the last yield
Wake(in, was) ==
    [in EXCEPT !.wake =
        IF in.yielded # <<>> THEN FALSE
        ELSE was \/ \E k \in 1..Len(in.text) : Lower(in.text[k].w) = WAKE_WORD]

\* a step of next(stream) inside generator fn, leaving the frame in
Gen(fn, what, in) ==
    /\ input.stream = fn
    /\ input' = Wake(in, input.wake)
    /\ event' = [Event(fn) EXCEPT !.s = what]
    /\ UNCHANGED <<mlTrained, metronome, pager, opened, scheduled_timer,
                   timers, utter, intent, out, heard, exited, tick, pending>>

\* the first next(): the body runs from its top
Begin ==
    /\ input.st = "created"
    /\ Gen(input.stream, "begin", begin(input))

\* voice_loop_vosk: a result or a partial result; an empty text is skipped
VoskHear(text) ==
    /\ input.st = "running"
    /\ Gen("voice_loop_vosk", "heard",
           IF text = <<>> THEN skip(input, text) ELSE wake_step(input, text))

\* voice_loop_sr: recognize_google returned a transcript
SrHear(text) ==
    /\ input.st = "running"
    /\ text # <<>>
    /\ Gen("voice_loop_sr", "heard", wake_step(input, text))

\* voice_loop_sr: recognize_google raised; "Sorry, I didn't catch that."
SrFail ==
    /\ input.st = "running"
    /\ Gen("voice_loop_sr", "except", skip(input, <<>>))

\* text_input_loop: a line, stripped; an empty one is skipped
TextLine(line) ==
    /\ input.st = "running"
    /\ Gen("text_input_loop", "line",
           IF line = <<>> THEN skip(input, line)
           ELSE [input EXCEPT !.text = line, !.yielded = <<line>>])

\* text_input_loop: EOFError or KeyboardInterrupt becomes "quit"
TextEof ==
    /\ input.st = "running"
    /\ Gen("text_input_loop", "eof",
           [input EXCEPT !.text = <<W("quit")>>, !.yielded = <<<<W("quit")>>>>])

\* main(): stream = input_stream(prefer=args.input, ...), on a machine with
\* or without each library, the model folder and a microphone
InitInput ==
    /\ mlTrained = FALSE
    /\ metronome = Metronome(DEFAULT_BPM)
    /\ pager = [present |-> FALSE, current_page |-> 1]
    /\ opened = 0
    /\ scheduled_timer = 0
    /\ timers = <<>>
    /\ utter = <<>>
    /\ intent = NoIntent
    /\ out = <<>>
    /\ heard = 0
    /\ exited = FALSE
    /\ tick = Frame
    /\ pending = NoCall
    /\ event = Event("input_stream")
    /\ \E prefer \in {"text", "vosk", "sr"},
          has_vosk \in BOOLEAN, model_ok \in BOOLEAN,
          has_sr \in BOOLEAN, mic_ok \in BOOLEAN :
          input = [NoInput EXCEPT !.prefer = prefer,
                                  !.has_vosk = has_vosk, !.model_ok = model_ok,
                                  !.has_sr = has_sr, !.mic_ok = mic_ok,
                                  !.stream = input_stream(prefer)[1],
                                  !.st = "created"]

NextInput ==
    \/ Begin
    \/ \E text \in Texts : VoskHear(text)
    \/ \E text \in Texts : SrHear(text)
    \/ SrFail
    \/ \E line \in Texts : TextLine(line)
    \/ TextEof

SpecInput == InitInput /\ [][NextInput]_vars

\* intents nlu may return in a session
SessionIntents ==
    TempoIntents \cup PageIntents
        \cup {Intent("help"), Intent("quit"), Intent("unknown")}

\* app.py main(): one turn of the loop, nlu having returned intent i
Turn(i) ==
    /\ heard < MaxUtterances
    /\ Dispatch(i)
    /\ heard' = heard + 1
    /\ UNCHANGED <<mlTrained, utter>>

\* app.py main(): the session before the loop, the tick thread started
InitSession ==
    /\ mlTrained = FALSE
    /\ \E b \in BpmArgs, present \in BOOLEAN :
          Start(start([metronome |-> Metronome(b)]).metronome, present)
    /\ event = Event("main")
    /\ opened = 0
    /\ out = <<>>

NextSession ==
    \/ \E i \in SessionIntents : Turn(i)
    \/ TimerThread

SpecSession == InitSession /\ [][NextSession]_vars

----------------------------------------------------------------------------
(* Properties *)

\* the last step was do_action
Dispatched == event.op = "do_action"

\* a timer whose next_page has not started
Outstanding(t) == timers[t].st \in {"waiting", "woken", "firing"}

\* C1: once cancel() was called on a timer whose next_page has not started
\* (a second schedule_page_turn replaced it), that timer's next_page never
\* starts: only the most recently scheduled timer turns the page.
C1_ReplacedTimerNeverFires ==
    [][\A t \in 1..Len(timers) :
          (Outstanding(t) /\ timers[t].finished) => timers'[t].st # "loaded"]_vars

\* the utterance "turn page in N bars"
TurnPageIn(u) ==
    /\ Len(u) = 5
    /\ u[1] = W("turn") /\ u[2] = W("page") /\ u[3] = W("in")
    /\ u[4].d # <<>> /\ u[5] = W("bars")

\* C2: with no trained model, "turn page in N bars" is classified as
\* schedule_page_turn with bars = N; dispatched at bpm 120 with a pager and
\* N = 4 it arms a timer due in 8 seconds and does not turn the page.
C2_TurnPageInBarsSchedules ==
    (Dispatched /\ ~mlTrained /\ TurnPageIn(utter)) =>
        /\ intent.name = "schedule_page_turn"
        /\ intent.bars = <<int(utter[4].d)>>
        /\ (metronome.bpm = 120 /\ pager.present /\ int(utter[4].d) = 4) =>
              /\ scheduled_timer # 0
              /\ timers[scheduled_timer].interval = <<8, 1>>
              /\ pager.current_page = event.page

\* clamp(n, 20, 300)
Clamp(n) == IF n < MIN_BPM THEN MIN_BPM ELSE IF n > MAX_BPM THEN MAX_BPM ELSE n

\* C3: the stored bpm always lies in [20,300]; the constructor and set_bpm(n)
\* store clamp(n), increase(d) stores clamp(current + d) and decrease(d)
\* stores clamp(current - d).
C3_BpmClamped ==
    /\ [](metronome.bpm \in MIN_BPM..MAX_BPM)
    /\ [](event.op \in {"Metronome", "set_bpm"} => metronome.bpm = Clamp(event.n[1]))
    /\ [][/\ event'.op = "increase" =>
                metronome'.bpm = Clamp(metronome.bpm + event'.n[1])
          /\ event'.op = "decrease" =>
                metronome'.bpm = Clamp(metronome.bpm - event'.n[1])]_vars

\* decrease(500) was clamped at the lower end
C3_Witness ==
    /\ event.op = "decrease"
    /\ event.n = <<500>>
    /\ metronome.bpm = MIN_BPM
    /\ metronome.subdivision = 2

\* C4: a set_tempo intent whose bpm slot is present, with any integer in it,
\* sets the bpm to clamp(value, 20, 300) and is not answered by the prompt
\* for a BPM number.
C4_SetTempoAnyInteger ==
    (Dispatched /\ intent.name = "set_tempo" /\ intent.bpm # <<>>) =>
        /\ metronome.bpm = Clamp(intent.bpm[1])
        /\ out = <<SayN("Tempo set to {} BPM.", Clamp(intent.bpm[1]))>>

PageIntentNames == {"next_page", "prev_page", "goto_page", "schedule_page_turn"}

\* C5: without a pager every page-related intent is answered by
\* "No PDF loaded." and changes nothing in the session.
C5_NoPagerNoPdfLoaded ==
    [][(event'.op = "do_action" /\ ~pager.present
            /\ intent'.name \in PageIntentNames) =>
          /\ out' = <<Say("No PDF loaded.")>>
          /\ UNCHANGED <<metronome, pager, opened, scheduled_timer, timers>>]_vars

SubdivisionNames == {"quarter", "eighth", "triplet", "sixteenth"}

\* C6: a set_subdivision intent whose sub slot is present and names no
\* subdivision is answered by a prompt, not by the confirmation of a change,
\* and leaves the metronome as it was.
C6_UnknownSubdivisionPrompts ==
    [][(event'.op = "do_action" /\ intent'.name = "set_subdivision"
            /\ intent'.sub # "" /\ Lower(intent'.sub) \notin SubdivisionNames) =>
          /\ Len(out') >= 1
          /\ \A k \in 1..Len(out') : out'[k].text # "Subdivision set to {}."
          /\ metronome' = metronome]_vars

\* C7: do_action says at least one thing for every intent.
C7_AlwaysResponds == Dispatched => Len(out) >= 1

\* a timer that is started, not cancelled and has not fired
Pending(t) == Outstanding(t) /\ ~timers[t].finished

\* C8: at most one timer is pending, and it is the session's
\* scheduled_timer: arming cancels the timer it replaces.
C8_AtMostOnePending ==
    /\ Cardinality({t \in 1..Len(timers) : Pending(t)}) <= 1
    /\ \A t \in 1..Len(timers) : Pending(t) => t = scheduled_timer

\* a second timer is pending after the first was cancelled in its wait
C8_Witness ==
    /\ Len(timers) = 2
    /\ Pending(2)
    /\ timers[1].finished /\ timers[1].st = "waiting"

\* 60 / bpm / multiplier
TickInterval(bpm, multiplier) == Frac(SECONDS_PER_MINUTE, bpm * multiplier)

Multiplier(sub) ==
    CASE sub = "quarter" -> 1
      [] sub = "eighth" -> 2
      [] sub = "triplet" -> 3
      [] sub = "sixteenth" -> 4

\* C9: the tick interval is always 60 / bpm / multiplier for the stored bpm
\* and subdivision; set_subdivision stores the multiplier of a known name
\* and leaves the metronome as it was for any other name.
C9_IntervalNeverStale ==
    /\ [](metronome.interval =
             TickInterval(metronome.bpm, metronome.subdivision))
    /\ [][event'.op = "set_subdivision" =>
             IF event'.s \in SubdivisionNames
             THEN metronome'.subdivision = Multiplier(event'.s)
             ELSE metronome' = metronome]_vars

\* the bpm was changed while the subdivision was a triplet
C9_Witness ==
    /\ event.op = "set_bpm"
    /\ metronome.subdivision = 3
    /\ metronome.bpm = MAX_BPM
    /\ metronome.interval = <<1, 15>>

\* the last step was prev_page, called directly or dispatched
PrevPageStep ==
    \/ event.op = "prev_page"
    \/ Dispatched /\ intent.name = "prev_page" /\ pager.present

\* C10: current_page is at least 1 in every state, and prev_page at page 1
\* leaves it at 1.
C10_PageAtLeastOne ==
    /\ pager.current_page >= 1
    /\ (PrevPageStep /\ event.page = 1) => pager.current_page = 1

\* prev_page was called at page 1, after the timers had turned the page and
\* goto_page had brought it back
C10_Witness ==
    /\ PrevPageStep
    /\ event.page = 1
    /\ pager.current_page = 1
    /\ opened = 1
    /\ Len(timers) = MaxTimers
    /\ \A t \in 1..Len(timers) : timers[t].st = "done"

\* an intent whose required slot is absent
MissingSlot(i) ==
    \/ i.name = "set_tempo" /\ i.bpm = <<>>
    \/ i.name = "set_subdivision" /\ i.sub = ""
    \/ i.name = "goto_page" /\ i.page = <<>>
    \/ i.name = "schedule_page_turn" /\ i.bars = <<>>

\* what do_action asks when the slot of the intent is missing
Clarification(name) ==
    CASE name = "set_tempo" -> "Say a BPM number, like 'set tempo to 120'."
      [] name = "set_subdivision" ->
             "Say a subdivision: quarter, eighth, triplet, sixteenth."
      [] name = "goto_page" -> "Say 'go to page N'."
      [] name = "schedule_page_turn" -> "Say 'turn page in N bars'."

\* C12: when the required slot of set_tempo, set_subdivision, goto_page or
\* schedule_page_turn is absent, do_action says the clarification prompt of
\* that intent and nothing else, and leaves the metronome (bpm, subdivision,
\* interval, running), the pager, the viewer, the scheduled timer and every
\* timer unchanged.
C12_MissingSlotPrompts ==
    [][(event'.op = "do_action" /\ MissingSlot(intent')) =>
          /\ out' = <<Say(Clarification(intent'.name))>>
          /\ UNCHANGED <<metronome, pager, opened, scheduled_timer, timers>>]_vars

\* schedule_page_turn without bars was dispatched while a timer was pending
C12_Witness ==
    /\ Dispatched
    /\ intent.name = "schedule_page_turn" /\ intent.bars = <<>>
    /\ pager.present
    /\ out = <<Say("Say 'turn page in N bars'.")>>
    /\ scheduled_timer # 0 /\ Pending(scheduled_timer)

\* C13: a dispatched schedule_page_turn whose bars slot is present, with a
\* pager present, leaves a started, uncancelled timer as the session's
\* scheduled timer, due in exactly bars * 4 * 60 / bpm seconds for the bpm
\* stored at the dispatch; the thread of a timer stores the page it read
\* plus one (next_page).
C13_ScheduleDelayExact ==
    /\ [](( /\ Dispatched
            /\ intent.name = "schedule_page_turn"
            /\ intent.bars # <<>>
            /\ pager.present ) =>
              /\ scheduled_timer = Len(timers)
              /\ scheduled_timer # 0
              /\ timers[scheduled_timer].st = "waiting"
              /\ ~timers[scheduled_timer].finished
              /\ timers[scheduled_timer].interval =
                     Frac(intent.bars[1] * BEATS_PER_BAR * SECONDS_PER_MINUTE,
                          metronome.bpm))
    /\ [][\A t \in 1..Len(timers) :
             (timers[t].st = "loaded" /\ timers'[t].st = "stored") =>
                 pager'.current_page = timers[t].local + 1]_vars

\* the intents about the metronome
TempoIntentNames ==
    {"start_met", "stop_met", "set_tempo", "inc_tempo", "dec_tempo",
     "tap_tempo", "what_tempo", "set_subdivision"}

\* C19: dispatching stop_met, start_met or any tempo or subdivision intent
\* leaves the session's scheduled timer, every timer (its delay, its
\* cancelled flag, where its thread is), the pager's current_page and the
\* viewer unchanged.
C19_TempoLeavesSchedule ==
    [][(event'.op = "do_action" /\ intent'.name \in TempoIntentNames) =>
          UNCHANGED <<scheduled_timer, timers, pager, opened>>]_vars

\* stop_met was dispatched while the scheduled timer was past its test of the
\* cancelled flag: it is still about to turn the page
C19_Witness ==
    /\ Dispatched
    /\ intent.name = "stop_met"
    /\ scheduled_timer # 0
    /\ timers[scheduled_timer].st = "firing"
    /\ ~timers[scheduled_timer].finished
    /\ ~metronome.running

\* C15: the timer's next_page and a page intent of the main thread exclude
\* each other.  When the main thread's next_page found page p, the page the
\* timer thread had read, and the timer thread stores next, the page is p + 2
\* (both turns count); and the timer's next_page opens the viewer at the page
\* it stored itself.
C15_PagerSerial ==
    [][\A t \in 1..Len(timers) :
          /\ ( /\ timers[t].st = "loaded" /\ timers'[t].st = "stored"
               /\ Dispatched /\ intent.name = "next_page" /\ pager.present
               /\ event.page = timers[t].local ) =>
                 pager'.current_page = event.page + 2
          /\ (timers[t].st = "stored" /\ timers'[t].st = "done") =>
                 opened' = timers[t].local + 1]_vars

\* C18: once quit has been processed (the process has exited), no timer is
\* left pending: the scheduled one was cancelled; and the tick thread was
\* shut down: running is cleared and stop_all is set.
C18_QuitShutsDown ==
    exited =>
        /\ \A t \in 1..Len(timers) : ~Pending(t)
        /\ ~metronome.running
        /\ metronome.stop_all

\* C11: start_met leaves the metronome running with one tick thread, and
\* never is there a second one; stop_met leaves it stopped; start_met on a
\* running metronome and stop_met on a stopped one change nothing but what
\* is said.
C11_StartStopIdempotent ==
    /\ [](metronome.threads <= 1)
    /\ [][(event'.op = "do_action" /\ intent'.name = "start_met") =>
             /\ metronome'.running /\ metronome'.alive
             /\ metronome'.threads = 1
             /\ out' = <<Say("Metronome started.")>>
             /\ (metronome.alive /\ metronome.running) =>
                    /\ metronome' = metronome
                    /\ UNCHANGED <<pager, opened, scheduled_timer, timers, tick,
                                   exited>>]_vars
    /\ [][(event'.op = "do_action" /\ intent'.name = "stop_met") =>
             /\ ~metronome'.running
             /\ out' = <<Say("Metronome stopped.")>>
             /\ ~metronome.running =>
                    /\ metronome' = metronome
                    /\ UNCHANGED <<pager, opened, scheduled_timer, timers, tick,
                                   exited>>]_vars

\* start_met was dispatched while the one tick thread was asleep after its
\* third tick
C11_Witness ==
    /\ Dispatched
    /\ intent.name = "start_met"
    /\ metronome.running
    /\ metronome.threads = 1
    /\ metronome.beat = 3
    /\ tick.pc = "sleep"

\* C16: the subdivision a tick counted with and the interval it then sleeps
\* belong to one tempo: the interval is 60 / bpm / that subdivision for some
\* bpm the metronome can store.
C16_TickReadsOneTempo ==
    [][(event'.op = "Metronome.run" /\ event'.s = "sleep") =>
          \E b \in MIN_BPM..MAX_BPM :
              tick'.interval = TickInterval(b, tick'.sub)]_vars

\* C17: the tick thread prints a tick only while the metronome is running:
\* none after stop_click has returned and before the next start_click.
C17_NoTickWhileStopped ==
    [][(event'.op = "Metronome.run" /\ event'.s = "tick") =>
          metronome.running]_vars

\* a voice mode can be used: its library is installed, and the model folder
\* exists (vosk) or a microphone is there (sr)
Available(mode) ==
    CASE mode = "voice_loop_vosk" -> input.has_vosk /\ input.model_ok
      [] mode = "voice_loop_sr" -> input.has_sr /\ input.mic_ok
      [] OTHER -> TRUE

\* the modes in the order of preference
Order ==
    CASE input.prefer = "vosk" ->
             <<"voice_loop_vosk", "voice_loop_sr", "text_input_loop">>
      [] input.prefer = "sr" ->
             <<"voice_loop_sr", "voice_loop_vosk", "text_input_loop">>
      [] OTHER -> <<"text_input_loop">>

\* C14: the stream input_stream returns is the first available mode in the
\* order of preference, the text input loop when no voice mode is available,
\* and it never ends without an utterance.
C14_FallsBackToText ==
    input.stream # "" =>
        /\ \E k \in 1..Len(Order) :
              /\ input.stream = Order[k]
              /\ Available(Order[k])
              /\ \A j \in 1..(k - 1) : ~Available(Order[j])
        /\ input.st # "ended"

\* the last step was a turn of a voice loop
VoiceTurn(e) == e.op \in {"voice_loop_vosk", "voice_loop_sr"} /\ e.s # "begin"

\* C20: a voice loop yields a text only if a text with the wake word as one
\* of its words was heard before it and since the last yield, and then it
\* yields that very text; a text heard with no wake since the last yield
\* is not yielded, whether it has the wake word or not; and the first
\* recognised text after the wake is yielded.
C20_OneUtterancePerWake ==
    [][VoiceTurn(event') =>
          /\ input'.yielded # <<>> =>
                 input.wake /\ input'.yielded = <<input'.text>>
          /\ ~input.wake => input'.yielded = <<>>
          /\ (input.wake /\ event'.s = "heard" /\ input'.text # <<>>) =>
                 input'.yielded = <<input'.text>>]_vars

\* after a wake, the wake word alone was heard again and yielded as the
\* utterance
C20_Witness ==
    /\ VoiceTurn(event)
    /\ input.yielded = << <<W("Maestro")>> >>
    /\ ~input.heard_wake
    /\ ~input.wake

====
